---- MODULE Spec2Model ----
(***************************************************************************)
(* A model of displacement.py: Delaunay-triangulation based smooth         *)
(* displacement of a point cloud by anchors and their handles.             *)
(*                                                                         *)
(* Arithmetic is exact.  Coordinates live on the integer lattice and       *)
(* every scalar the script derives from them is a rational number, kept    *)
(* as a reduced pair <<numerator, denominator>> with denominator > 0.      *)
(***************************************************************************)
EXTENDS Integers, Sequences, FiniteSets

(***************************************************************************)
(* Bounds of the model.                                                    *)
(***************************************************************************)
MaxPoints == 2          \* vertices of the deformed mesh
MaxNum == 6             \* |numerator| of the fractions given to smooth_function
MaxDen == 4             \* denominator of the fractions given to smooth_function

(***************************************************************************)
(* Program constants.                                                      *)
(***************************************************************************)
DELAUNAY_MINIMUM_POINTS == 5

(***************************************************************************)
(* Rational numbers.                                                       *)
(***************************************************************************)
Abs(x) == IF x < 0 THEN -x ELSE x

RECURSIVE GCD(_, _)
GCD(a, b) == IF b = 0 THEN a ELSE GCD(b, a % b)

Rat(n, d) ==
    LET s == IF d < 0 THEN -1 ELSE 1
        g == GCD(Abs(n), Abs(d))
    IN  <<(s * n) \div g, (s * d) \div g>>

Zero == <<0, 1>>
One == <<1, 1>>
FromInt(n) == <<n, 1>>

RAdd(a, b) ==
    LET g == GCD(a[2], b[2])
    IN  Rat(a[1] * (b[2] \div g) + b[1] * (a[2] \div g), (a[2] \div g) * b[2])

RNeg(a) == <<-a[1], a[2]>>
RSub(a, b) == RAdd(a, RNeg(b))

RMul(a, b) ==
    LET g1 == GCD(Abs(a[1]), b[2])
        g2 == GCD(Abs(b[1]), a[2])
    IN  <<(a[1] \div g1) * (b[1] \div g2), (a[2] \div g2) * (b[2] \div g1)>>

\* a / b for b # 0
RDiv(a, b) ==
    RMul(a, IF b[1] < 0 THEN <<-b[2], -b[1]>> ELSE <<b[2], b[1]>>)

RLeq(a, b) == a[1] * b[2] <= b[1] * a[2]
RLess(a, b) == a[1] * b[2] < b[1] * a[2]

RECURSIVE RSum(_)
RSum(s) == IF s = <<>> THEN Zero ELSE RAdd(Head(s), RSum(Tail(s)))

(***************************************************************************)
(* mathutils.Vector over the integer lattice, and vectors of rationals.    *)
(***************************************************************************)
VSub(u, v) == <<u[1] - v[1], u[2] - v[2], u[3] - v[3]>>
VAdd(u, v) == <<u[1] + v[1], u[2] + v[2], u[3] + v[3]>>
Dot(u, v) == u[1] * v[1] + u[2] * v[2] + u[3] * v[3]

RVec(v) == <<FromInt(v[1]), FromInt(v[2]), FromInt(v[3])>>
RVAdd(u, v) == <<RAdd(u[1], v[1]), RAdd(u[2], v[2]), RAdd(u[3], v[3])>>
RVScale(c, v) == <<RMul(c, v[1]), RMul(c, v[2]), RMul(c, v[3])>>
RVZero == <<Zero, Zero, Zero>>

(***************************************************************************)
(* 4x4 world matrices, restricted to lattice isometries: a linear part     *)
(* that is a signed permutation matrix (rows lin[1..3]) and a translation. *)
(***************************************************************************)
Identity == <<<<1, 0, 0>>, <<0, 1, 0>>, <<0, 0, 1>>>>
RotZ == <<<<0, -1, 0>>, <<1, 0, 0>>, <<0, 0, 1>>>>

Transpose(l) ==
    <<<<l[1][1], l[2][1], l[3][1]>>,
      <<l[1][2], l[2][2], l[3][2]>>,
      <<l[1][3], l[2][3], l[3][3]>>>>

LinApply(l, v) == <<Dot(l[1], v), Dot(l[2], v), Dot(l[3], v)>>

\* Matrix @ Vector
MatApply(m, v) == VAdd(LinApply(m.lin, v), m.tr)

RDot(row, v) ==
    RAdd(RMul(FromInt(row[1]), v[1]),
         RAdd(RMul(FromInt(row[2]), v[2]), RMul(FromInt(row[3]), v[3])))

\* Matrix @ Vector for a vector of rationals
RMatApply(m, v) ==
    RVAdd(<<RDot(m.lin[1], v), RDot(m.lin[2], v), RDot(m.lin[3], v)>>, RVec(m.tr))

\* Matrix.inverted(): the inverse of x |-> lin.x + tr is x |-> lin^T.x - lin^T.tr
Inverted(m) ==
    [lin |-> Transpose(m.lin),
     tr  |-> VSub(<<0, 0, 0>>, LinApply(Transpose(m.lin), m.tr))]

(***************************************************************************)
(* smooth_function.                                                        *)
(***************************************************************************)
\* variant: the clamp at 1 is missing
smooth_function_unclamped(fraction) ==
    IF RLeq(fraction, Zero) THEN Zero
    ELSE LET f == fraction
         IN  RSub(RMul(RMul(FromInt(3), f), f),
                  RMul(RMul(RMul(FromInt(2), f), f), f))

smooth_function(fraction) ==
    IF RLeq(fraction, Zero) THEN Zero
    ELSE IF RLeq(One, fraction) THEN One
    ELSE LET f == fraction
         IN  RSub(RMul(RMul(FromInt(3), f), f),
                  RMul(RMul(RMul(FromInt(2), f), f), f))

(***************************************************************************)
(* The scene.  The anchors collection holds one object per entry of Sites; *)
(* the object in slot s sits at Sites[s], except that the last object may  *)
(* have been moved onto the first one.  Each object has a world matrix     *)
(* with its location as translation and one child, the handle, with world  *)
(* matrix HandleMatrix(s).  Which objects are parentless, whether the last *)
(* one was moved, where the mesh vertices are and where the mesh object    *)
(* is are the inputs.                                                      *)
(***************************************************************************)
Sites == << <<0, 0, 0>>, <<2, 0, 0>>, <<0, 2, 0>>, <<2, 2, 0>>, <<2, 2, 2>> >>

CollectionSize == Len(Sites)

AnchorMatrix(s, location) ==
    [lin |-> IF s % 2 = 0 THEN RotZ ELSE Identity, tr |-> location]

HandleMatrix(s) ==
    [lin |-> IF s % 3 = 0 THEN RotZ ELSE Identity,
     tr  |-> VAdd(Sites[s], <<0, IF s % 2 = 0 THEN -1 ELSE 1, s % 3>>)]

SceneObject(s, parentless, location) ==
    [parent       |-> IF parentless THEN "None" ELSE "object",
     location     |-> location,
     matrix_world |-> AnchorMatrix(s, location),
     children     |-> <<[matrix_world |-> HandleMatrix(s)]>>]

IsParentless(o) == o.parent = "None"

Collections ==
    {[s \in 1..CollectionSize |->
         SceneObject(s, s \in P,
                     IF moved /\ s = CollectionSize THEN Sites[1] ELSE Sites[s])] :
        P \in SUBSET (1..CollectionSize), moved \in BOOLEAN}

PointSites == {<<1, 0, 0>>, <<-1, -1, 0>>, <<2, 2, 0>>, <<3, 1, 1>>}

CloudMatrices ==
    {[lin |-> Identity, tr |-> <<0, 0, 0>>], [lin |-> RotZ, tr |-> <<1, 0, 0>>]}

Meshes == UNION {[1..m -> PointSites] : m \in 0..MaxPoints}

VARIABLES
    collection,         \* bpy.data.collections[ANCHORS_NAME].objects
    cloud,              \* cloud.matrix_world
    co,                 \* point.co of every vertex of the mesh
    co0,                \* history: point.co of every vertex before the pass
    anchors,
    neighbors,
    usedDelaunay,       \* history: the triangulation branch was taken
    pc,
    idx,                \* position of the loop over points
    raw,                \* history: influence_coeffs before normalization
    influence_coeffs,
    err,
    smCalls,            \* history: calls of smooth_function made so far
    smArg, smRes,       \* the last call of smooth_function
    smPrevArg, smPrevRes    \* the call before it

vars == <<collection, cloud, co, co0, anchors, neighbors, usedDelaunay, pc, idx,
          raw, influence_coeffs, err, smCalls, smArg, smRes, smPrevArg, smPrevRes>>

pipeVars == <<collection, cloud, co, co0, anchors, neighbors, usedDelaunay, pc,
              idx, raw, influence_coeffs, err>>
smVars == <<smCalls, smArg, smRes, smPrevArg, smPrevRes>>

(***************************************************************************)
(* Neighbor computation (lines 44-56).  Anchor indices are 1-based here.   *)
(***************************************************************************)
Range(n) == [i \in 1..n |-> i]

\* variant: pop() without the index, which drops the last element
PopLast(s, k) == SubSeq(s, 1, Len(s) - 1)

\* list.pop(k)
Pop(s, k) == SubSeq(s, 1, k - 1) \o SubSeq(s, k + 1, Len(s))

\* the else branch: every anchor but k itself
CompleteNeighbors(n) == [k \in 1..n |-> Pop(Range(n), k)]

RECURSIVE SortedSeq(_)
SortedSeq(S) ==
    IF S = {} THEN <<>>
    ELSE LET m == CHOOSE x \in S : \A y \in S : x <= y
         IN  <<m>> \o SortedSeq(S \ {m})

(***************************************************************************)
(* scipy.spatial.Delaunay with the joggle option and                       *)
(* vertex_neighbor_vertices.  The library is not part of the script; it    *)
(* is modelled by its contract.  The result is the edge relation of a      *)
(* Delaunay triangulation of the (joggled) anchor locations: a symmetric,  *)
(* irreflexive relation such that for every ball that has location i on    *)
(* its sphere and no location in its interior, one of the other locations  *)
(* on the sphere, if there is any, is a neighbor of i.  Balls are taken    *)
(* with their centre on the half-integer lattice CenterLattice (centres    *)
(* are kept doubled).  Which of the relations with this property comes out *)
(* is left open.                                                           *)
(***************************************************************************)
CenterLattice == {<<x, y, z>> : x \in -4..8, y \in -4..8, z \in -4..8}

\* squared distance, times 4, of the centre c/2 and the location v
Dist4(c, v) == LET w == VSub(c, <<2 * v[1], 2 * v[2], 2 * v[3]>>) IN Dot(w, w)

\* for every empty ball through location i: the other locations on its sphere
EmptyBalls(locs, i) ==
    {S \in {{k \in DOMAIN locs \ {i} : Dist4(c, locs[k]) = Dist4(c, locs[i])} :
                c \in {b \in CenterLattice :
                          \A k \in DOMAIN locs :
                              Dist4(b, locs[k]) >= Dist4(b, locs[i])}} :
        S # {}}

\* the relations over a set of pairs, filtered by the empty-ball requirements
\* balls (pairs <<i, S>>: some location of S must be a neighbor of i)
RelationsOver(n, pairs, balls) ==
    LET forced == {e \in pairs : \E b \in balls : {b[1]} \cup b[2] = e}
        open == {b \in balls : \A j \in b[2] : {b[1], j} \notin forced}
        free == pairs \ forced
    IN  {[i \in 1..n |-> {j \in 1..n : {i, j} \in forced \cup Y}] :
            Y \in {X \in SUBSET free :
                      \A b \in open : \E j \in b[2] : {b[1], j} \in X}}

DelaunayRelations(locs) ==
    RelationsOver(Len(locs),
                  {e \in SUBSET (DOMAIN locs) : Cardinality(e) = 2},
                  UNION {{<<i, S>> : S \in EmptyBalls(locs, i)} : i \in DOMAIN locs})

\* the if branch: neighbors[k] = indices[pointers[k]:pointers[k+1]]
DelaunayNeighbors(locs) ==
    {[k \in 1..Len(locs) |-> SortedSeq(nb[k])] : nb \in DelaunayRelations(locs)}

(***************************************************************************)
(* The loop body for one point (lines 61-115).                             *)
(*                                                                         *)
(* delta_normalized is kept scaled by the length of the delta: Scaled      *)
(* stands for (second_coords - first_coords), which is                     *)
(* |delta| * delta_normalized when the anchors differ and, like            *)
(* normalized() of Blender, the zero vector when they coincide.  Every     *)
(* threshold and dot product of one pair of anchors carries the same       *)
(* factor |delta|, which leaves the comparison of line 76 as it is and     *)
(* cancels in the quotient of line 92.                                     *)
(***************************************************************************)
Scaled(first_coords, second_coords) == VSub(second_coords, first_coords)

\* variant: the comparison is made with the threshold of the first anchor
BeyondInner(point_in_world, first_coords, second_coords) ==
    LET delta == Scaled(first_coords, second_coords)
    IN  Dot(point_in_world, delta) > Dot(first_coords, delta)

\* line 76: dot > outer_threshold
BeyondOuter(point_in_world, first_coords, second_coords) ==
    LET delta == Scaled(first_coords, second_coords)
    IN  Dot(point_in_world, delta) > Dot(second_coords, delta)

\* lines 67-80: in_cell after the loop over second_anchor_index
in_cell(point_in_world, as, first) ==
    \A second \in DOMAIN as :
        second # first =>
            ~BeyondOuter(point_in_world, as[first].location, as[second].location)

\* variant: the numerator is taken from the outer threshold
FractionPartsFromOuter(point_in_world, first_coords, second_coords) ==
    LET delta == Scaled(first_coords, second_coords)
        inner_threshold == Dot(first_coords, delta)
        outer_threshold == Dot(second_coords, delta)
    IN  <<Dot(point_in_world, delta) - outer_threshold,
          outer_threshold - inner_threshold>>

\* line 92: numerator and denominator of fraction
FractionParts(point_in_world, first_coords, second_coords) ==
    LET delta == Scaled(first_coords, second_coords)
        inner_threshold == Dot(first_coords, delta)
        outer_threshold == Dot(second_coords, delta)
    IN  <<Dot(point_in_world, delta) - inner_threshold,
          outer_threshold - inner_threshold>>

\* lines 85-95: the loop over the neighbors of one anchor, from the value coeff;
\* zero_division is set where line 92 divides by zero
RECURSIVE Boundaries(_, _, _, _, _)
Boundaries(point_in_world, as, first, nbrs, coeff) ==
    IF nbrs = <<>> THEN [zero_division |-> FALSE, coeff |-> coeff]
    ELSE LET parts == FractionParts(point_in_world, as[first].location,
                                    as[Head(nbrs)].location)
         IN  IF parts[2] = 0 THEN [zero_division |-> TRUE, coeff |-> coeff]
             ELSE LET fraction == Rat(parts[1], parts[2])
                      influence_curve == RSub(One, smooth_function(fraction))
                  IN  Boundaries(point_in_world, as, first, Tail(nbrs),
                                 RMul(coeff, influence_curve))

\* lines 66-96: one iteration of the loop over first_anchor_index
AnchorCoeff(point_in_world, as, nb, first) ==
    IF in_cell(point_in_world, as, first)
    THEN Boundaries(point_in_world, as, first, nb[first], One)
    ELSE [zero_division |-> FALSE, coeff |-> Zero]

\* lines 62-97: influence_coeffs after the loop over first_anchor_index, from the
\* iteration first on; an iteration that raises leaves the later entries at 1
RECURSIVE RawCoeffsFrom(_, _, _, _)
RawCoeffsFrom(point_in_world, as, nb, first) ==
    IF first > Len(as) THEN [zero_division |-> FALSE, coeffs |-> <<>>]
    ELSE LET this == AnchorCoeff(point_in_world, as, nb, first)
         IN  IF this.zero_division
             THEN [zero_division |-> TRUE,
                   coeffs |-> <<this.coeff>> \o SubSeq([i \in DOMAIN as |-> One],
                                                       first + 1, Len(as))]
             ELSE LET rest == RawCoeffsFrom(point_in_world, as, nb, first + 1)
                  IN  [zero_division |-> rest.zero_division,
                       coeffs |-> <<this.coeff>> \o rest.coeffs]

RawCoeffs(point_in_world, as, nb) == RawCoeffsFrom(point_in_world, as, nb, 1)

RECURSIVE DivideAll(_, _)
DivideAll(coeffs, coeffs_sum) ==
    IF coeffs = <<>> THEN <<>>
    ELSE <<RDiv(Head(coeffs), coeffs_sum)>> \o DivideAll(Tail(coeffs), coeffs_sum)

\* variant: the sum misses the first coefficient
NormalizedSkipFirst(coeffs) ==
    LET coeffs_sum == IF coeffs = <<>> THEN Zero ELSE RSum(Tail(coeffs))
    IN  IF coeffs_sum # Zero THEN DivideAll(coeffs, coeffs_sum) ELSE coeffs

\* lines 100-102
Normalized(coeffs) ==
    LET coeffs_sum == RSum(coeffs)
    IN  IF coeffs_sum # Zero THEN DivideAll(coeffs, coeffs_sum) ELSE coeffs

\* variant: the point is not taken into the frame of the anchor
DisplacedFromWorld(anchor, cloud_matrix, point_co) ==
    LET end == anchor.children[1]
    IN  MatApply(end.matrix_world, MatApply(cloud_matrix, point_co))

\* lines 110-111
DisplacedInWorld(anchor, cloud_matrix, point_co) ==
    LET end == anchor.children[1]
        point_in_anchor ==
            MatApply(Inverted(anchor.matrix_world), MatApply(cloud_matrix, point_co))
    IN  MatApply(end.matrix_world, point_in_anchor)

\* lines 105-113
RECURSIVE Blend(_, _, _, _, _)
Blend(as, coeffs, cloud_matrix, point_co, anchor_index) ==
    IF anchor_index > Len(as) THEN RVZero
    ELSE RVAdd(RVScale(coeffs[anchor_index],
                       RVec(DisplacedInWorld(as[anchor_index], cloud_matrix, point_co))),
               Blend(as, coeffs, cloud_matrix, point_co, anchor_index + 1))

\* line 115: the value assigned to point.co
NewCo(as, coeffs, cloud_matrix, point_co) ==
    LET matrix_cloud_to_world == Inverted(cloud_matrix)
        new_in_world == Blend(as, coeffs, cloud_matrix, point_co, 1)
    IN  RMatApply(matrix_cloud_to_world, new_in_world)

\* variant: the assignment reaches the vertices after the one in turn as well
WriteFrom(points, index, value) ==
    [k \in DOMAIN points |-> IF k >= index THEN value ELSE points[k]]

\* line 115: the assignment to point.co of the vertex in turn
WritePoint(points, index, value) == [points EXCEPT ![index] = value]

\* the lattice vector of a vertex that has not been written yet
Lattice(rv) == <<rv[1][1], rv[2][1], rv[3][1]>>

\* delaunay_points (line 42) of every scene that reaches the triangulation
TriangulatedLocations ==
    {[k \in DOMAIN c |-> c[k].location] :
        c \in {SelectSeq(coll, IsParentless) : coll \in Collections}}

\* Delaunay(delaunay_points).vertex_neighbor_vertices, tabulated once
DelaunayTable ==
    {<<locs, DelaunayNeighbors(locs)>> :
        locs \in {l \in TriangulatedLocations : Len(l) >= DELAUNAY_MINIMUM_POINTS}}

TriangulationsOf(locs) == (CHOOSE t \in DelaunayTable : t[1] = locs)[2]

(***************************************************************************)
(* The script as a state machine.                                          *)
(***************************************************************************)
Init ==
    /\ collection \in Collections
    /\ cloud \in CloudMatrices
    /\ co0 \in Meshes
    /\ co = [k \in DOMAIN co0 |-> RVec(co0[k])]
    /\ anchors = <<>>
    /\ neighbors = <<>>
    /\ usedDelaunay = FALSE
    /\ pc = "anchors"
    /\ idx = 1
    /\ raw = <<>>
    /\ influence_coeffs = <<>>
    /\ err = "none"
    /\ smCalls = 0
    /\ smArg = Zero /\ smRes = Zero /\ smPrevArg = Zero /\ smPrevRes = Zero

\* lines 41-42
LoadAnchors ==
    /\ pc = "anchors"
    /\ anchors' = SelectSeq(collection, IsParentless)
    /\ pc' = "neighbors"
    /\ UNCHANGED <<collection, cloud, co, co0, neighbors, usedDelaunay, idx, raw,
                   influence_coeffs, err>>
    /\ UNCHANGED smVars

\* lines 45-51
BuildDelaunay ==
    /\ pc = "neighbors"
    /\ Len(anchors) >= DELAUNAY_MINIMUM_POINTS
    /\ neighbors' \in TriangulationsOf([k \in DOMAIN anchors |-> anchors[k].location])
    /\ usedDelaunay' = TRUE
    /\ pc' = "points"
    /\ UNCHANGED <<collection, cloud, co, co0, anchors, idx, raw, influence_coeffs, err>>
    /\ UNCHANGED smVars

\* lines 45-46, 52-56
BuildComplete ==
    /\ pc = "neighbors"
    /\ ~(Len(anchors) >= DELAUNAY_MINIMUM_POINTS)
    /\ neighbors' = CompleteNeighbors(Len(anchors))
    /\ pc' = "points"
    /\ UNCHANGED <<collection, cloud, co, co0, anchors, usedDelaunay, idx, raw,
                   influence_coeffs, err>>
    /\ UNCHANGED smVars

\* lines 59-115: one iteration of the loop over points; it either runs to its
\* end and writes point.co, or line 92 raises ZeroDivisionError, which ends the
\* script
DisplacePoint ==
    /\ pc = "points"
    /\ idx <= Len(co)
    /\ LET point_co == Lattice(co[idx])
           point_in_world == MatApply(cloud, point_co)
           r == RawCoeffs(point_in_world, anchors, neighbors)
           normalized == Normalized(r.coeffs)
       IN  IF r.zero_division
           THEN /\ influence_coeffs' = r.coeffs
                /\ err' = "ZeroDivisionError"
                /\ pc' = "raised"
                /\ UNCHANGED <<raw, co, idx>>
           ELSE /\ raw' = r.coeffs
                /\ influence_coeffs' = normalized
                /\ co' = WritePoint(co, idx,
                                    NewCo(anchors, normalized, cloud, point_co))
                /\ idx' = idx + 1
                /\ UNCHANGED <<pc, err>>
    /\ UNCHANGED <<collection, cloud, co0, anchors, neighbors, usedDelaunay>>
    /\ UNCHANGED smVars

\* the loop over points is exhausted
EndOfPoints ==
    /\ pc = "points"
    /\ idx > Len(co)
    /\ pc' = "done"
    /\ UNCHANGED <<collection, cloud, co, co0, anchors, neighbors, usedDelaunay, idx,
                   raw, influence_coeffs, err>>
    /\ UNCHANGED smVars

Next ==
    \/ LoadAnchors
    \/ BuildDelaunay
    \/ BuildComplete
    \/ DisplacePoint
    \/ EndOfPoints

Spec == Init /\ [][Next]_vars

(***************************************************************************)
(* smooth_function on its own: calls with arguments from a bounded set of  *)
(* fractions, the last two calls being remembered.                         *)
(***************************************************************************)
Fractions == {Rat(n, d) : n \in (-MaxNum)..MaxNum, d \in 1..MaxDen}

SmoothInit ==
    /\ collection = <<>>
    /\ cloud = [lin |-> Identity, tr |-> <<0, 0, 0>>]
    /\ co0 = <<>>
    /\ co = <<>>
    /\ anchors = <<>>
    /\ neighbors = <<>>
    /\ usedDelaunay = FALSE
    /\ pc = "done"
    /\ idx = 1
    /\ raw = <<>>
    /\ influence_coeffs = <<>>
    /\ err = "none"
    /\ smCalls = 0
    /\ smArg = Zero /\ smRes = Zero /\ smPrevArg = Zero /\ smPrevRes = Zero

CallSmooth ==
    /\ \E fraction \in Fractions :
          /\ smArg' = fraction
          /\ smRes' = smooth_function(fraction)
    /\ smPrevArg' = smArg
    /\ smPrevRes' = smRes
    /\ smCalls' = IF smCalls < 2 THEN smCalls + 1 ELSE smCalls
    /\ UNCHANGED pipeVars

SpecSmooth == SmoothInit /\ [][CallSmooth]_vars

(***************************************************************************)
(* Vocabulary of the properties.                                           *)
(***************************************************************************)
\* the loop over points has displaced at least one point and not raised
Displaced == pc \in {"points", "done"} /\ idx > 1

\* the point displaced last, in world space
LastPoint == MatApply(cloud, co0[idx - 1])

Unwritten(k) == co[k] = RVec(co0[k])

Coincident(as) ==
    \E i, j \in DOMAIN as : i # j /\ as[i].location = as[j].location

\* the point lies on the plane through anchor j that bounds the cell of anchor i
OnPlane(point, as, i, j) ==
    LET delta == VSub(as[j].location, as[i].location)
    IN  Dot(point, delta) = Dot(as[j].location, delta)

Members(seq) == {seq[k] : k \in DOMAIN seq}

Dist2(u, v) == Dot(VSub(u, v), VSub(u, v))

(***************************************************************************)
(* Properties.                                                             *)
(***************************************************************************)

\* C1: whenever some raw weight of the displaced point is nonzero, the
\* influence_coeffs after normalization sum to exactly 1 and each lies in
\* [0, 1]; no raw weight is negative.
C1_PartitionOfUnity ==
    Displaced =>
        /\ \A i \in DOMAIN raw : RLeq(Zero, raw[i])
        /\ (\E i \in DOMAIN raw : raw[i] # Zero) =>
              /\ RSum(influence_coeffs) = One
              /\ \A i \in DOMAIN influence_coeffs :
                    RLeq(Zero, influence_coeffs[i]) /\ RLeq(influence_coeffs[i], One)

\* a point whose raw weights were rescaled: two anchors share it
C1_Witness ==
    /\ Displaced
    /\ \E i, j \in DOMAIN raw :
          /\ i # j
          /\ raw[i] # Zero /\ raw[j] # Zero
          /\ influence_coeffs[i] # raw[i]

\* C2: a point whose raw weights sum to zero keeps all weights at 0 and keeps
\* its stored position (it is not collapsed to the origin of the frame).
C2_UnresolvedKeepsPosition ==
    (Displaced /\ RSum(raw) = Zero) =>
        /\ \A i \in DOMAIN influence_coeffs : influence_coeffs[i] = Zero
        /\ Unwritten(idx - 1)

\* C3: with two anchors at the same location the pass never divides by zero
\* and never overwrites the stored position of a point (stated for the graphs
\* of the fallback).
C3_CoincidentFatalBeforeOutput ==
    (Coincident(anchors) /\ ~usedDelaunay) =>
        /\ err # "ZeroDivisionError"
        /\ \A k \in DOMAIN co : Unwritten(k)

\* C4: below 5 anchors the neighbors of anchor k are exactly the other
\* anchors, each once, for every anchor k; the triangulation is used if and
\* only if there are 5 anchors or more.
C4_CompleteGraphFallback ==
    pc \in {"points", "raised", "done"} =>
        LET n == Len(anchors)
        IN  /\ usedDelaunay <=> n >= 5
            /\ n < 5 =>
                  /\ DOMAIN neighbors = 1..n
                  /\ \A k \in 1..n :
                        /\ Members(neighbors[k]) = (1..n) \ {k}
                        /\ Len(neighbors[k]) = n - 1

\* the fallback built the graph of four anchors
C4_Witness == pc = "points" /\ Len(anchors) = 4 /\ ~usedDelaunay

\* C7: smooth_function is 0 up to 0, 1 from 1 on and 3f^2 - 2f^3 between; its
\* value lies in [0, 1], it is non-decreasing, it maps 1/2 to 1/2, and
\* smooth_function(1 - f) = 1 - smooth_function(f) on [0, 1].
C7_SmoothstepContract ==
    /\ smCalls >= 1 =>
          /\ RLeq(smArg, Zero) => smRes = Zero
          /\ RLeq(One, smArg) => smRes = One
          /\ (RLess(Zero, smArg) /\ RLess(smArg, One)) =>
                smRes[1] * smArg[2] * smArg[2] * smArg[2] =
                    smRes[2] * (3 * smArg[1] * smArg[1] * smArg[2]
                                - 2 * smArg[1] * smArg[1] * smArg[1])
          /\ RLeq(Zero, smRes) /\ RLeq(smRes, One)
          /\ smArg = <<1, 2>> => smRes = <<1, 2>>
    /\ smCalls >= 2 =>
          /\ RLeq(smPrevArg, smArg) => RLeq(smPrevRes, smRes)
          /\ (RLeq(Zero, smArg) /\ RLeq(smArg, One) /\ smPrevArg = RSub(One, smArg)) =>
                smPrevRes = RSub(One, smRes)

\* two calls on the cubic part, with arguments that add up to 1
C7_Witness == smCalls >= 2 /\ smArg = <<3, 4>> /\ smPrevArg = <<1, 4>>

\* C8: a pass with no anchor over a mesh with vertices does not run to its end
\* and writes no position.
C8_EmptyAnchorListRejected ==
    (pc # "anchors" /\ Len(anchors) = 0 /\ Len(co) > 0) =>
        /\ pc # "done"
        /\ \A k \in DOMAIN co : Unwritten(k)

\* C5: if the displaced point lies in the cell of exactly one anchor and its
\* fraction against every neighbor of that anchor is at most 0, that anchor's
\* influence is 1, every other influence is 0, and the position written is the
\* anchor's handle matrix applied to the point in the anchor's local frame.
C5_DeepInterior ==
    Displaced =>
        \A i \in DOMAIN anchors :
            ( /\ \A j \in DOMAIN anchors : in_cell(LastPoint, anchors, j) <=> j = i
              /\ \A k \in DOMAIN neighbors[i] :
                    LET parts == FractionParts(LastPoint, anchors[i].location,
                                               anchors[neighbors[i][k]].location)
                    IN  parts[2] # 0 /\ RLeq(Rat(parts[1], parts[2]), Zero) )
            => /\ influence_coeffs[i] = One
               /\ \A j \in DOMAIN anchors : j # i => influence_coeffs[j] = Zero
               /\ co[idx - 1] =
                     RVec(MatApply(Inverted(cloud),
                            MatApply(anchors[i].children[1].matrix_world,
                              MatApply(Inverted(anchors[i].matrix_world), LastPoint))))

\* a point deep inside the only cell that holds it, the anchor having neighbors
C5_Witness ==
    /\ Displaced
    /\ \E i \in DOMAIN anchors :
          /\ Len(neighbors[i]) >= 2
          /\ \A j \in DOMAIN anchors : in_cell(LastPoint, anchors, j) <=> j = i
          /\ \A k \in DOMAIN neighbors[i] :
                LET parts == FractionParts(LastPoint, anchors[i].location,
                                           anchors[neighbors[i][k]].location)
                IN  parts[2] # 0 /\ RLess(Rat(parts[1], parts[2]), Zero)

\* the position the loop body computes from a vertex, the anchors and the graph
DisplacementOf(point_co) ==
    NewCo(anchors,
          Normalized(RawCoeffs(MatApply(cloud, point_co), anchors, neighbors).coeffs),
          cloud, point_co)

\* C6: the position written for a point is a function of its own input
\* position, the anchors and the neighbor graph; a step of the loop writes the
\* position of the point in turn only, and leaves the anchors, their matrices
\* and the neighbor graph as they are.
C6_PointIndependence ==
    /\ [](pc \in {"points", "raised", "done"} =>
             \A k \in DOMAIN co :
                 /\ k < idx => co[k] = DisplacementOf(co0[k])
                 /\ k >= idx => Unwritten(k))
    /\ [][pc = "points" =>
             /\ anchors' = anchors
             /\ neighbors' = neighbors
             /\ collection' = collection
             /\ cloud' = cloud
             /\ DOMAIN co' = DOMAIN co
             /\ \A k \in DOMAIN co : k # idx => co'[k] = co[k]]_vars

\* two points displaced, the second to another position than before
C6_Witness ==
    /\ pc = "done"
    /\ idx = 3
    /\ co0[1] # co0[2]
    /\ ~Unwritten(1) /\ ~Unwritten(2)
    /\ Len(anchors) >= 2

\* C9: a displaced point that is in the cell of anchor i and lies on the
\* bounding plane through another anchor j gives anchor i the raw weight 0,
\* whatever neighbor graph the pass built.
C9_NoJumpAtCellBoundary ==
    Displaced =>
        \A i, j \in DOMAIN anchors :
            (i # j /\ in_cell(LastPoint, anchors, i) /\ OnPlane(LastPoint, anchors, i, j))
            => raw[i] = Zero

\* such a point under a triangulation in which j is no neighbor of i
C9_Witness ==
    /\ Displaced
    /\ usedDelaunay
    /\ \E i, j \in DOMAIN anchors :
          /\ i # j
          /\ anchors[i].location # anchors[j].location
          /\ j \notin Members(neighbors[i])
          /\ in_cell(LastPoint, anchors, i)
          /\ OnPlane(LastPoint, anchors, i, j)

\* the anchors nearest to the point
Nearest(point, as) ==
    {i \in DOMAIN as :
        \A j \in DOMAIN as : Dist2(point, as[i].location) <= Dist2(point, as[j].location)}

\* C10: with at least one anchor and no two anchors at the same location, no
\* iteration raises, every anchor nearest to the displaced point has a
\* strictly positive raw weight, and the raw weights do not sum to zero.
C10_Coverage ==
    (Len(anchors) >= 1 /\ ~Coincident(anchors)) =>
        /\ pc # "raised"
        /\ Displaced =>
              /\ \A i \in Nearest(LastPoint, anchors) : RLess(Zero, raw[i])
              /\ RSum(raw) # Zero

\* a point between cells: some anchor is cut off, some weight is fractional
C10_Witness ==
    /\ Displaced
    /\ Len(anchors) >= 3
    /\ ~Coincident(anchors)
    /\ \E i \in DOMAIN raw : raw[i] = Zero
    /\ \E i \in Nearest(LastPoint, anchors) : RLess(raw[i], One)

====
